---------------------------- MODULE Spec2Model ----------------------------
(***************************************************************************)
(* State-machine model of the chadRefuter Reddit bot (src/src/*.py): the   *)
(* scan / dedup / generate / deliver pipeline, the comment and reply rate  *)
(* limiter, and the reply-thread tracker.                                  *)
(*                                                                         *)
(* Scheduling.  All loops are asyncio coroutines of one event loop, so a   *)
(* piece of code between two suspension points is one atomic action.  The  *)
(* suspension points are: awaiting the LLM, asyncio.sleep, and nothing     *)
(* else (the queues are unbounded, the PRAW and sqlite calls block).       *)
(*                                                                         *)
(* Time.  One time unit is 60 s.  The limiter only compares                *)
(* time.time() - last_comment_time with comment_delay, so the model keeps  *)
(* that difference, saturated at comment_delay, instead of the two         *)
(* absolute values; a sleeper keeps the time it still has to sleep.        *)
(***************************************************************************)
EXTENDS Integers, Sequences, FiniteSets, TLC

\* ----------------------------------------------------------------- bounds
NumItems == 2
MaxReplies == 2
MaxFaults == 1
MaxRestarts == 1
MaxQueue == 1
MaxWords == 5
MaxBacklog == 2
CacheCapacity == 3
CacheIds == 9
MaxSelfReplies == 1
ChainReplies == 6

\* ------------------------------------------------------ program constants
\* reddit_api.py:14, 120 s in units of 60 s
comment_delay == 2
\* bot.py:60
max_conversation_depth == 5
\* config.py:20
posts_fetch_limit == 5
\* config.py:21 / post_handler.py:18 (1000 in the source; scaled)
post_cache_size == 1

VARIABLES
    \* ContentSource (Reddit)
    subreddit,              \* submissions of the subreddit, newest first
    selftext,               \* title and body of every submission, by post id
    thread,                 \* every comment on Reddit; the index is the comment id
    \* durable store (sqlite)
    posts,                  \* table posts: post_id -> row
    comments,               \* table comments: set of rows
    comment_replies,        \* table comment_replies: reply_comment_id -> row
    \* process memory
    phase,                  \* "start": constructed, run_async not yet past initial_scan
    post_cache,             \* PostCache._cache
    scan_lock,              \* RedditBot._scan_lock is held
    post_queue,
    processing_queue,
    reply_queue,
    has_previous_comments,
    time_since_last,        \* min(time.time() - last_comment_time, comment_delay)
    \* position of each consumer loop
    gen,                    \* process_queue
    cp,                     \* comment_processor
    rp,                     \* process_comment_replies
    \* history
    since_delivery,         \* time since the last successful external post, saturated
    delivered,              \* successful external posts, in order
    dropped,                \* posts whose comment the external post call refused
    last_post,              \* the limiter's view of the call that posted last
    scanlog,                \* what the last scan looked at and returned
    faults,
    restarts,
    \* life cycle of the process
    running,                \* RedditBot.running
    exited,                 \* the loops of run_async's gather that have returned
    escaped,                \* the loops an exception has left
    asleep                  \* the loops that were in a sleep when the signal came

reddit == <<subreddit, selftext, thread>>
db     == <<posts, comments, comment_replies>>
queues == <<post_queue, processing_queue, reply_queue>>
loops  == <<gen, cp, rp>>
clock  == <<time_since_last, since_delivery, last_post>>
scanning == <<scan_lock, scanlog>>
history == <<delivered, dropped>>
lifecycle == <<running, exited, escaped, asleep>>
vars   == <<subreddit, selftext, thread, posts, comments, comment_replies,
           phase, post_cache, scan_lock, post_queue, processing_queue, reply_queue,
           has_previous_comments, time_since_last, gen, cp, rp,
           since_delivery, delivered, dropped, last_post, scanlog, faults, restarts,
           running, exited, escaped, asleep>>

\* ---------------------------------------------------------------- helpers
Min(a, b) == IF a < b THEN a ELSE b
Max(a, b) == IF a > b THEN a ELSE b
Range(s) == {s[i] : i \in 1..Len(s)}
NULL == "NULL"
Idle == [pc |-> "idle"]

\* table write: INSERT OR REPLACE of the row with unique key k
Upsert(table, k, row) ==
    [j \in (DOMAIN table) \cup {k} |-> IF j = k THEN row ELSE table[j]]

\* ---------------------------------------------------------- asyncio.Queue
\* a queue that hands out its newest entry
DequeueNewest(queue) ==
    [item |-> queue[Len(queue)], rest |-> SubSeq(queue, 1, Len(queue) - 1)]

\* asyncio.Queue.get on a queue that is not empty (put is Append): the oldest entry
Dequeue(queue) == [item |-> Head(queue), rest |-> Tail(queue)]

\* ------------------------------------------------------------- PostCache
\* PostCache.contains
CacheContains(cache, post_id) == post_id \in cache

\* an add that never clears
PostCacheAddKeeps(cache, post_id, max_size) == cache \cup {post_id}

\* PostCache.add of a cache of capacity max_size: clear everything at capacity, then add
PostCacheAdd(cache, post_id, max_size) ==
    IF Cardinality(cache) >= max_size THEN {post_id}
    ELSE cache \cup {post_id}

\* PostCache.add of the program's cache
CacheAdd(cache, post_id) == PostCacheAdd(cache, post_id, post_cache_size)

\* ------------------------------------------------------- DatabaseHandler
\* check_if_post_exists: a sqlite3.Error is answered with False
check_if_post_exists(tbl, post_id, fails) ==
    IF fails THEN FALSE ELSE post_id \in DOMAIN tbl

\* a save_post that reports success and writes nothing
save_post_nothing(tbl, post_id, fails) == tbl

\* save_post (llm_response = None): INSERT OR REPLACE; on sqlite3.Error nothing is written
save_post(tbl, post_id, fails) ==
    IF fails THEN tbl ELSE Upsert(tbl, post_id, [llm_response |-> NULL])

\* update_post_response: UPDATE ... WHERE post_id = ?
update_post_response(tbl, post_id, text, fails) ==
    IF fails \/ post_id \notin DOMAIN tbl THEN tbl
    ELSE [tbl EXCEPT ![post_id].llm_response = text]

\* save_comment: a plain INSERT into a table whose comment_id is UNIQUE.  A second
\* row with a comment_id the table holds raises sqlite3.IntegrityError, a
\* sqlite3.Error: nothing is written and False is returned.
save_comment(tbl, post_id, comment_id, fails) ==
    LET ok == ~fails /\ ~\E row \in tbl : row.comment_id = comment_id
    IN [ok  |-> ok,
        tbl |-> IF ok THEN tbl \cup {[post_id |-> post_id, comment_id |-> comment_id]}
                ELSE tbl]

\* has_commented_on_post: SELECT 1 FROM comments WHERE post_id = ?
has_commented_on_post(tbl, post_id, fails) ==
    IF fails THEN FALSE ELSE \E row \in tbl : row.post_id = post_id

\* a save_comment_reply that writes its row although sqlite raised
save_comment_reply_anyway(tbl, parent_comment_id, reply_comment_id, depth, llm_response, fails) ==
    Upsert(tbl, reply_comment_id,
           [parent_comment_id |-> parent_comment_id,
            conversation_depth |-> depth,
            llm_response |-> llm_response,
            is_processed |-> (llm_response # NULL /\ llm_response # "")])

\* save_comment_reply: INSERT OR REPLACE, is_processed = bool(llm_response)
save_comment_reply(tbl, parent_comment_id, reply_comment_id, depth, llm_response, fails) ==
    IF fails THEN tbl
    ELSE Upsert(tbl, reply_comment_id,
                [parent_comment_id |-> parent_comment_id,
                 conversation_depth |-> depth,
                 llm_response |-> llm_response,
                 is_processed |-> (llm_response # NULL /\ llm_response # "")])

\* get_conversation_depth: the row whose reply_comment_id is comment_id, else 0
get_conversation_depth(tbl, comment_id, fails) ==
    IF fails \/ comment_id \notin DOMAIN tbl THEN 0
    ELSE tbl[comment_id].conversation_depth

\* is_reply_processed
is_reply_processed(tbl, reply_comment_id, fails) ==
    IF fails \/ reply_comment_id \notin DOMAIN tbl THEN FALSE
    ELSE tbl[reply_comment_id].is_processed

\* ----------------------------------------------------- ContentSource (PRAW)
\* subreddit.new(limit): the newest submissions, newest first
SubredditNew(limit) == SubSeq(subreddit, 1, Min(limit, Len(subreddit)))

\* reddit.user.me().comments.new(): the ids of the bot account's comments
BotCommentIds == {c \in 1..Len(thread) : thread[c].author = "bot"}
UserReplyIds == {c \in 1..Len(thread) : thread[c].author = "user"}

\* comment.replies: the direct replies to comment c
RepliesTo(c) == {r \in 1..Len(thread) : thread[r].kind = "reply" /\ thread[r].parent = c}

\* RedditBot._check_previous_comments
check_previous_comments(fails) == IF fails THEN FALSE ELSE BotCommentIds # {}

\* Depth of a user's reply in its conversation, as the glossary defines it: a reply
\* to a top-level comment of the bot has depth 1, a reply to the bot's answer to a
\* reply of depth d has depth d + 1.
RECURSIVE TrueDepth(_)
TrueDepth(r) ==
    LET c == thread[r].parent IN
    IF thread[c].kind = "top" THEN 1 ELSE 1 + TrueDepth(thread[c].parent)

\* ------------------------------------------------------------ PostHandler
\* A text is the sequence of its words (post_text.split()).  religious_keywords is
\* cut down to three of its fifteen entries; "gods" holds "god" as a substring.
religious_keywords == {"god", "gods", "holy"}
Vocabulary == {"gods", "holy", "tea"}
Texts(n) == UNION {[1..k -> Vocabulary] : k \in 0..n}
PlainText == <<"tea", "tea", "tea">>
SampleTexts == {PlainText, <<"gods", "tea", "tea">>}

\* 'word in post_text' for a keyword: a substring test.  No keyword holds a blank,
\* so it is a substring of the text iff it is one of some word.
SubstringOf(kw, w) == kw = w \/ (kw = "god" /\ w = "gods")

\* process_post: word_count and religious_word_count (the keywords found, each
\* counted once)
word_count(text) == Len(text)
religious_word_count(text) ==
    Cardinality({kw \in religious_keywords : \E i \in 1..Len(text) : SubstringOf(kw, text[i])})

\* a filter whose threshold is inclusive
ContentFilterInclusive(text) ==
    IF religious_word_count(text) > 0
    THEN IF word_count(text) = 0 THEN "error"
         ELSE IF 10 * religious_word_count(text) >= 4 * word_count(text) THEN "skip"
         ELSE "pass"
    ELSE "pass"

\* a filter that lets every text through
ContentFilterOff(text) == "pass"

\* process_post: religious_word_count > 0 and religious_word_count / word_count > 0.4.
\* The quotient of two small integers is above the double 0.4 iff it is above 2/5;
\* a division by zero would end process_post in its except branch.
ContentFilter(text) ==
    IF religious_word_count(text) > 0
    THEN IF word_count(text) = 0 THEN "error"
         ELSE IF 10 * religious_word_count(text) > 4 * word_count(text) THEN "skip"
         ELSE "pass"
    ELSE "pass"

\* a loop that a failed save_post ends
RECURSIVE FetchLoopWriteStops(_, _, _, _, _, _)
FetchLoopWriteStops(window, k, st, rf, wf, stop) ==
    IF k > Len(window) \/ k > stop THEN st
    ELSE
      LET id     == window[k]
          cached == CacheContains(st.cache, id)
          exists == check_if_post_exists(st.posts, id, id \in rf)
          isNew  == ~cached /\ ~exists
          cache2 == IF isNew THEN CacheAdd(st.cache, id) ELSE st.cache
          posts2 == IF isNew THEN save_post(st.posts, id, id \in wf) ELSE st.posts
          d      == [id |-> id, cached |-> cached, stored |-> id \in DOMAIN st.posts,
                     new |-> isNew, marked |-> id \in cache2,
                     persisted |-> id \in DOMAIN posts2,
                     writeFailed |-> isNew /\ id \in wf,
                     changed |-> cache2 # st.cache \/ posts2 # st.posts]
          st2    == [cache |-> cache2,
                     posts |-> posts2,
                     new   |-> IF isNew THEN Append(st.new, id) ELSE st.new,
                     dec   |-> Append(st.dec, d)]
      IN IF d.writeFailed THEN st2
         ELSE FetchLoopWriteStops(window, k + 1, st2, rf, wf, stop)

\* fetch_new_posts, the loop over the fetched window from its k-th item on.  rf and
\* wf are the ids whose durable read / write raises sqlite3.Error; stop is the
\* number of items handled before another exception ends the loop.
RECURSIVE FetchLoop(_, _, _, _, _, _)
FetchLoop(window, k, st, rf, wf, stop) ==
    IF k > Len(window) \/ k > stop THEN st
    ELSE
      LET id     == window[k]
          cached == CacheContains(st.cache, id)
          exists == check_if_post_exists(st.posts, id, id \in rf)
          isNew  == ~cached /\ ~exists
          cache2 == IF isNew THEN CacheAdd(st.cache, id) ELSE st.cache
          posts2 == IF isNew THEN save_post(st.posts, id, id \in wf) ELSE st.posts
          d      == [id |-> id, cached |-> cached, stored |-> id \in DOMAIN st.posts,
                     new |-> isNew, marked |-> id \in cache2,
                     persisted |-> id \in DOMAIN posts2,
                     writeFailed |-> isNew /\ id \in wf,
                     changed |-> cache2 # st.cache \/ posts2 # st.posts]
          st2    == [cache |-> cache2,
                     posts |-> posts2,
                     new   |-> IF isNew THEN Append(st.new, id) ELSE st.new,
                     dec   |-> Append(st.dec, d)]
      IN FetchLoop(window, k + 1, st2, rf, wf, stop)

\* a fetch that returns the posts it found before an exception ended the loop
fetch_new_posts_partial(cache, tbl, window, rf, wf, stop) ==
    FetchLoop(window, 1, [cache |-> cache, posts |-> tbl, new |-> <<>>, dec |-> <<>>],
              rf, wf, stop)

\* fetch_new_posts: the list it returns is empty when an exception ended the loop
fetch_new_posts(cache, tbl, window, rf, wf, stop) ==
    LET st == FetchLoop(window, 1,
                        [cache |-> cache, posts |-> tbl, new |-> <<>>, dec |-> <<>>],
                        rf, wf, stop)
    IN [st EXCEPT !.new = IF stop < Len(window) THEN <<>> ELSE st.new]

\* ------------------------------------------------------------------- Init
NoPost == [gap |-> comment_delay, elapsed |-> comment_delay, req |-> 0,
           overlap |-> FALSE]
NoScan == [scans |-> 0, window |-> <<>>, before |-> {}, after |-> {}, new |-> <<>>,
           dec |-> <<>>, done |-> FALSE, failed |-> FALSE, prevWindow |-> <<>>,
           prevAfter |-> {}, prevDone |-> FALSE]

Init ==
    /\ subreddit = <<>>
    /\ selftext = <<>>
    /\ thread = <<>>
    /\ posts = <<>>
    /\ comments = {}
    /\ comment_replies = <<>>
    /\ phase = "start"
    /\ post_cache = {}
    /\ scan_lock = FALSE
    /\ post_queue = <<>>
    /\ processing_queue = <<>>
    /\ reply_queue = <<>>
    /\ has_previous_comments = FALSE
    /\ time_since_last = comment_delay
    /\ gen = Idle
    /\ cp = Idle
    /\ rp = Idle
    /\ since_delivery = comment_delay
    /\ delivered = <<>>
    /\ last_post = NoPost
    /\ dropped = {}
    /\ scanlog = NoScan
    /\ faults = 0
    /\ restarts = 0
    /\ running = FALSE
    /\ exited = {}
    /\ escaped = {}
    /\ asleep = {}

\* A later start of the process, in a deployment where an earlier run commented on
\* submission 1 (Spec reaches this state: scan, generate, post, restart).  The
\* fault budget is spent: runs from here are runs in which nothing fails.
InitDeployed ==
    /\ subreddit = <<1>>
    /\ selftext = <<PlainText>>
    /\ thread = <<[author |-> "bot", kind |-> "top", parent |-> 1]>>
    /\ posts = <<[llm_response |-> "text"]>>
    /\ comments = {}
    /\ comment_replies = <<>>
    /\ phase = "start"
    /\ post_cache = {}
    /\ scan_lock = FALSE
    /\ post_queue = <<>>
    /\ processing_queue = <<>>
    /\ reply_queue = <<>>
    /\ has_previous_comments = check_previous_comments(FALSE)
    /\ time_since_last = comment_delay
    /\ gen = Idle
    /\ cp = Idle
    /\ rp = Idle
    /\ since_delivery = comment_delay
    /\ delivered = <<[kind |-> "comment", target |-> 1, response |-> "text"]>>
    /\ last_post = NoPost
    /\ dropped = {}
    /\ scanlog = NoScan
    /\ faults = MaxFaults
    /\ restarts = MaxRestarts
    /\ running = FALSE
    /\ exited = {}
    /\ escaped = {}
    /\ asleep = {}

\* A first start with one submission, of any text of up to MaxWords words, in the
\* subreddit, on a store whose comments table is empty or holds a row for it.
InitFilter ==
    /\ subreddit = <<1>>
    /\ selftext \in {<<t>> : t \in Texts(MaxWords)}
    /\ thread = <<>>
    /\ posts = <<>>
    /\ comments \in {{}, {[post_id |-> 1, comment_id |-> 1]}}
    /\ comment_replies = <<>>
    /\ phase = "start"
    /\ post_cache = {}
    /\ scan_lock = FALSE
    /\ post_queue = <<>>
    /\ processing_queue = <<>>
    /\ reply_queue = <<>>
    /\ has_previous_comments = FALSE
    /\ time_since_last = comment_delay
    /\ gen = Idle
    /\ cp = Idle
    /\ rp = Idle
    /\ since_delivery = comment_delay
    /\ delivered = <<>>
    /\ last_post = NoPost
    /\ dropped = {}
    /\ scanlog = NoScan
    /\ faults = 0
    /\ restarts = MaxRestarts
    /\ running = FALSE
    /\ exited = {}
    /\ escaped = {}
    /\ asleep = {}

\* A state of a first run: submission 1 was scanned and answered, and the external
\* post of its comment failed (Spec reaches it, its fault budget spent on that
\* failure; here the budget is whole again).
InitDropped ==
    /\ subreddit = <<1>>
    /\ selftext = <<PlainText>>
    /\ thread = <<>>
    /\ posts = <<[llm_response |-> "text"]>>
    /\ comments = {}
    /\ comment_replies = <<>>
    /\ phase = "loops"
    /\ post_cache = {1}
    /\ scan_lock = FALSE
    /\ post_queue = <<>>
    /\ processing_queue = <<>>
    /\ reply_queue = <<>>
    /\ has_previous_comments = FALSE
    /\ time_since_last = comment_delay
    /\ gen = Idle
    /\ cp = Idle
    /\ rp = Idle
    /\ since_delivery = comment_delay
    /\ delivered = <<>>
    /\ last_post = NoPost
    /\ dropped = {1}
    /\ scanlog = [scans |-> 2, window |-> <<1>>, before |-> {1}, after |-> {1},
                  new |-> <<>>, done |-> TRUE, failed |-> FALSE,
                  dec |-> <<[id |-> 1, cached |-> TRUE, stored |-> TRUE, new |-> FALSE,
                             marked |-> TRUE, persisted |-> TRUE, writeFailed |-> FALSE,
                             changed |-> FALSE]>>,
                  prevWindow |-> <<1>>, prevAfter |-> {1}, prevDone |-> TRUE]
    /\ faults = 0
    /\ restarts = 0
    /\ running = TRUE
    /\ exited = {}
    /\ escaped = {}
    /\ asleep = {}

\* A state of a later run with work for every loop (SpecLimiter reaches it): a second
\* submission was scanned and waits on post_queue, a user's reply to the bot's
\* comment was scanned and waits on reply_queue.
InitBusy ==
    /\ subreddit = <<2, 1>>
    /\ selftext = <<PlainText, PlainText>>
    /\ thread = <<[author |-> "bot", kind |-> "top", parent |-> 1],
                  [author |-> "user", kind |-> "reply", parent |-> 1]>>
    /\ posts = <<[llm_response |-> "text"], [llm_response |-> NULL]>>
    /\ comments = {}
    /\ comment_replies = <<>>
    /\ phase = "loops"
    /\ post_cache = {2}
    /\ scan_lock = FALSE
    /\ post_queue = <<2>>
    /\ processing_queue = <<>>
    /\ reply_queue = <<[parent_comment_id |-> 1, reply_id |-> 2, depth |-> 1]>>
    /\ has_previous_comments = TRUE
    /\ time_since_last = comment_delay
    /\ gen = Idle
    /\ cp = Idle
    /\ rp = Idle
    /\ since_delivery = comment_delay
    /\ delivered = <<[kind |-> "comment", target |-> 1, response |-> "text"]>>
    /\ last_post = NoPost
    /\ dropped = {}
    /\ scanlog = [scans |-> 2, window |-> <<2, 1>>, before |-> {2}, after |-> {2},
                  new |-> <<>>, done |-> TRUE, failed |-> FALSE,
                  dec |-> <<[id |-> 2, cached |-> TRUE, stored |-> TRUE, new |-> FALSE,
                             marked |-> TRUE, persisted |-> TRUE, writeFailed |-> FALSE,
                             changed |-> FALSE],
                            [id |-> 1, cached |-> FALSE, stored |-> TRUE, new |-> FALSE,
                             marked |-> FALSE, persisted |-> TRUE, writeFailed |-> FALSE,
                             changed |-> FALSE]>>,
                  prevWindow |-> <<2, 1>>, prevAfter |-> {2}, prevDone |-> TRUE]
    /\ faults = MaxFaults
    /\ restarts = MaxRestarts
    /\ running = TRUE
    /\ exited = {}
    /\ escaped = {}
    /\ asleep = {}

\* The same state of the running loops, with failures still to come.
InitLoops ==
    /\ subreddit = <<2, 1>>
    /\ selftext = <<PlainText, PlainText>>
    /\ thread = <<[author |-> "bot", kind |-> "top", parent |-> 1],
                  [author |-> "user", kind |-> "reply", parent |-> 1]>>
    /\ posts = <<[llm_response |-> "text"], [llm_response |-> NULL]>>
    /\ comments = {}
    /\ comment_replies = <<>>
    /\ phase = "loops"
    /\ post_cache = {2}
    /\ scan_lock = FALSE
    /\ post_queue = <<2>>
    /\ processing_queue = <<>>
    /\ reply_queue = <<[parent_comment_id |-> 1, reply_id |-> 2, depth |-> 1]>>
    /\ has_previous_comments = TRUE
    /\ time_since_last = comment_delay
    /\ gen = Idle
    /\ cp = Idle
    /\ rp = Idle
    /\ since_delivery = comment_delay
    /\ delivered = <<[kind |-> "comment", target |-> 1, response |-> "text"]>>
    /\ last_post = NoPost
    /\ dropped = {}
    /\ scanlog = [scans |-> 2, window |-> <<2, 1>>, before |-> {2}, after |-> {2},
                  new |-> <<>>, done |-> TRUE, failed |-> FALSE,
                  dec |-> <<[id |-> 2, cached |-> TRUE, stored |-> TRUE, new |-> FALSE,
                             marked |-> TRUE, persisted |-> TRUE, writeFailed |-> FALSE,
                             changed |-> FALSE],
                            [id |-> 1, cached |-> FALSE, stored |-> TRUE, new |-> FALSE,
                             marked |-> FALSE, persisted |-> TRUE, writeFailed |-> FALSE,
                             changed |-> FALSE]>>,
                  prevWindow |-> <<2, 1>>, prevAfter |-> {2}, prevDone |-> TRUE]
    /\ faults = 0
    /\ restarts = MaxRestarts
    /\ running = TRUE
    /\ exited = {}
    /\ escaped = {}
    /\ asleep = {}

\* A start of the process on an account that has never commented, or that commented
\* on submission 1 in an earlier run; the look at the account's comments in the
\* constructor succeeds or fails.  spent of the fault budget is used up.
InitStart(spent) ==
    /\ subreddit = <<1>>
    /\ selftext = <<PlainText>>
    /\ \E posted \in BOOLEAN :
         /\ thread = IF posted THEN <<[author |-> "bot", kind |-> "top", parent |-> 1]>>
                      ELSE <<>>
         /\ posts = IF posted THEN <<[llm_response |-> "text"]>> ELSE <<>>
         /\ delivered = IF posted
                         THEN <<[kind |-> "comment", target |-> 1, response |-> "text"]>>
                         ELSE <<>>
    /\ comments = {}
    /\ comment_replies = <<>>
    /\ phase = "start"
    /\ post_cache = {}
    /\ scan_lock = FALSE
    /\ post_queue = <<>>
    /\ processing_queue = <<>>
    /\ reply_queue = <<>>
    /\ \E fails \in BOOLEAN : has_previous_comments = check_previous_comments(fails)
    /\ time_since_last = comment_delay
    /\ gen = Idle
    /\ cp = Idle
    /\ rp = Idle
    /\ since_delivery = comment_delay
    /\ last_post = NoPost
    /\ dropped = {}
    /\ scanlog = NoScan
    /\ faults = spent
    /\ restarts = MaxRestarts
    /\ running = FALSE
    /\ exited = {}
    /\ escaped = {}
    /\ asleep = {}

\* starts after which nothing fails
InitGate == InitStart(MaxFaults)

\* starts with failures still to come
InitFlag == InitStart(0)

\* A first run on an empty store right after its initial scan found two submissions
\* (Spec reaches this state: submit, submit, initial_scan), with spent of the fault
\* budget used up.
InitScanned(spent) ==
    /\ subreddit = <<2, 1>>
    /\ selftext = <<PlainText, PlainText>>
    /\ thread = <<>>
    /\ posts = <<[llm_response |-> NULL], [llm_response |-> NULL]>>
    /\ comments = {}
    /\ comment_replies = <<>>
    /\ phase = "gather"
    /\ post_cache = {1}
    /\ scan_lock = FALSE
    /\ post_queue = <<2, 1>>
    /\ processing_queue = <<>>
    /\ reply_queue = <<>>
    /\ has_previous_comments = FALSE
    /\ time_since_last = comment_delay
    /\ gen = Idle
    /\ cp = Idle
    /\ rp = Idle
    /\ since_delivery = comment_delay
    /\ delivered = <<>>
    /\ last_post = NoPost
    /\ dropped = {}
    /\ scanlog = [scans |-> 1, window |-> <<2, 1>>, before |-> {}, after |-> {1},
                  new |-> <<2, 1>>, done |-> TRUE, failed |-> FALSE,
                  dec |-> <<[id |-> 2, cached |-> FALSE, stored |-> FALSE, new |-> TRUE,
                             marked |-> TRUE, persisted |-> TRUE, writeFailed |-> FALSE,
                             changed |-> TRUE],
                            [id |-> 1, cached |-> FALSE, stored |-> FALSE, new |-> TRUE,
                             marked |-> TRUE, persisted |-> TRUE, writeFailed |-> FALSE,
                             changed |-> TRUE]>>,
                  prevWindow |-> <<>>, prevAfter |-> {}, prevDone |-> FALSE]
    /\ faults = spent
    /\ restarts = MaxRestarts
    /\ running = TRUE
    /\ exited = {}
    /\ escaped = {}
    /\ asleep = {}

\* runs from there in which nothing fails
InitFifo == InitScanned(MaxFaults)

\* runs from there with failures still to come
InitProgress == InitScanned(0)

\* ------------------------------------------------------------- life cycle
\* the coroutines run_async hands to asyncio.gather
Loops == {"scheduled_scan", "process_queue", "comment_processor",
          "scheduled_reply_scan", "process_comment_replies"}

\* a loop that never looks at the flag
LoopConditionAlways(flag) == TRUE

\* 'while self.running'
LoopCondition(flag) == flag

\* handlers that let a failure of a scan out of scheduled_scan
EscapesFromScan(loop, failed) ==
    IF failed /\ loop = "scheduled_scan" THEN {loop} ELSE {}

\* the 'except Exception' handlers around the body of every loop (and, below them,
\* those of the operations the loop calls): the loops an exception gets out of
Escapes(loop, failed) == {}

\* a step of loop, in which something may have failed
Contained(loop) ==
    /\ escaped' = escaped \cup Escapes(loop, faults' > faults)
    /\ UNCHANGED <<running, exited, asleep>>

\* loop starts an iteration: the flag is up and the process has not ended
Iterates(loop) ==
    /\ LoopCondition(running)
    /\ loop \notin exited
    /\ escaped = {}

\* where loop is when it looks at the flag
AtLoopTop(loop) ==
    CASE loop = "process_queue" -> gen.pc = "idle"
      [] loop = "comment_processor" -> cp.pc = "idle"
      [] loop = "process_comment_replies" -> rp.pc = "idle"
      [] OTHER -> TRUE

\* the loops that are in a sleep inside their iteration: the limiter's wait in
\* post_comment / post_reply, the humanizing delay of process_comment_replies
Suspended ==
    {loop \in Loops : \/ loop = "comment_processor" /\ cp.pc = "sleep"
                      \/ loop = "process_comment_replies" /\ rp.pc \in {"delay", "sleep"}}

\* RedditBot.handle_shutdown, on SIGINT or SIGTERM
handle_shutdown ==
    /\ running' = FALSE
    /\ asleep' = IF running THEN Suspended ELSE asleep
    /\ UNCHANGED <<reddit, db, phase, post_cache, queues, has_previous_comments,
                   loops, clock, history, scanning, faults, restarts, exited, escaped>>

\* a loop finds the flag down and returns; scheduled_scan is the first that
\* asyncio.gather starts
LoopReturns(loop) ==
    /\ phase \in (IF loop = "scheduled_scan" THEN {"gather", "loops"} ELSE {"loops"})
    /\ loop \notin exited
    /\ escaped = {}
    /\ AtLoopTop(loop)
    /\ ~LoopCondition(running)
    /\ exited' = exited \cup {loop}
    /\ phase' = "loops"
    /\ UNCHANGED <<reddit, db, post_cache, queues, has_previous_comments,
                   loops, clock, history, scanning, faults, restarts, running, escaped,
                   asleep>>

loop_return == \E loop \in Loops : LoopReturns(loop)

\* run_async after asyncio.gather: PostHandler.close
run_async_close ==
    /\ phase = "loops"
    /\ exited = Loops
    /\ phase' = "closed"
    /\ UNCHANGED <<reddit, db, post_cache, queues, has_previous_comments,
                   loops, clock, history, scanning, faults, restarts, lifecycle>>

\* ------------------------------------------------------------ environment
\* a user submits a post, its title and body one of texts, to the subreddit
Submit(texts) ==
    /\ Len(subreddit) < NumItems
    /\ subreddit' = <<Len(subreddit) + 1>> \o subreddit
    /\ \E t \in texts : selftext' = Append(selftext, t)
    /\ UNCHANGED <<thread, db, phase, post_cache, queues, has_previous_comments,
                   loops, clock, history, scanning, faults, restarts, lifecycle>>

NewSubmission == Submit(SampleTexts)

\* a user replies to one of the bot's comments
UserReply ==
    /\ Cardinality(UserReplyIds) < MaxReplies
    /\ \E c \in BotCommentIds :
         thread' = Append(thread, [author |-> "user", kind |-> "reply", parent |-> c])
    /\ UNCHANGED <<subreddit, selftext, db, phase, post_cache, queues, has_previous_comments,
                   loops, clock, history, scanning, faults, restarts, lifecycle>>

\* the replies the bot's account has put under its own comments
SelfReplyIds ==
    {r \in BotCommentIds : thread[r].kind = "reply" /\ thread[r].parent \in BotCommentIds}

\* the bot's account, used by hand, replies to one of the bot's comments
SelfReply ==
    /\ Cardinality(SelfReplyIds) < MaxSelfReplies
    /\ \E c \in BotCommentIds :
         thread' = Append(thread, [author |-> "bot", kind |-> "reply", parent |-> c])
    /\ UNCHANGED <<subreddit, selftext, db, phase, post_cache, queues, has_previous_comments,
                   loops, clock, history, scanning, faults, restarts, lifecycle>>

\* a user carries one conversation on: a reply to the bot's newest comment, which
\* nobody has replied to yet
UserReplyInChain ==
    /\ Cardinality(UserReplyIds) < ChainReplies
    /\ \E c \in BotCommentIds :
         /\ \A b \in BotCommentIds : b <= c
         /\ RepliesTo(c) = {}
         /\ thread' = Append(thread, [author |-> "user", kind |-> "reply", parent |-> c])
    /\ UNCHANGED <<subreddit, selftext, db, phase, post_cache, queues, has_previous_comments,
                   loops, clock, history, scanning, faults, restarts, lifecycle>>

\* a sleep that never ends
SleptForever(l) == l

\* a time unit passes: every sleeper has one unit less to sleep
Slept(l) == IF l.pc = "sleep" THEN [l EXCEPT !.wait = Max(l.wait - 1, 0)] ELSE l

Tick ==
    /\ time_since_last' = Min(time_since_last + 1, comment_delay)
    /\ since_delivery' = Min(since_delivery + 1, comment_delay)
    /\ cp' = Slept(cp)
    /\ rp' = Slept(rp)
    /\ UNCHANGED last_post
    /\ UNCHANGED <<reddit, db, phase, post_cache, queues, has_previous_comments,
                   gen, history, scanning, faults, restarts, lifecycle>>

\* the process is killed and started again: RedditBot.__init__ up to run_async
Restart ==
    /\ restarts < MaxRestarts
    /\ restarts' = restarts + 1
    /\ phase' = "start"
    /\ post_cache' = {}
    /\ scan_lock' = FALSE
    /\ post_queue' = <<>>
    /\ processing_queue' = <<>>
    /\ reply_queue' = <<>>
    /\ gen' = Idle
    /\ cp' = Idle
    /\ rp' = Idle
    /\ time_since_last' = comment_delay
    /\ \E fails \in {f \in BOOLEAN : f => faults < MaxFaults} :
         /\ has_previous_comments' = check_previous_comments(fails)
         /\ faults' = IF fails THEN faults + 1 ELSE faults
    /\ scanlog' = NoScan
    /\ running' = FALSE
    /\ exited' = {}
    /\ escaped' = {}
    /\ asleep' = {}
    /\ UNCHANGED <<reddit, db, since_delivery, history, last_post>>

\* ---------------------------------------------------------------- scanning
\* a lock that stays held when the scan under it failed
ScanLockKept(failed) == failed

\* 'async with self._scan_lock': whether the lock is held once scan_posts is left
ScanLockAfter(failed) == FALSE

\* RedditBot.scan_posts with the cache it starts from: under _scan_lock,
\* fetch_new_posts, then every returned post is put on post_queue.  Nothing in it
\* suspends (the lock is free, the queue unbounded), and 'async with' gives the
\* lock back on every way out.
scan_posts(cache) ==
    LET window == SubredditNew(posts_fetch_limit) IN
    \E rf \in SUBSET Range(window), wf \in SUBSET Range(window),
       stop \in 0..Len(window) :
      LET n == Cardinality(rf) + Cardinality(wf) + (IF stop < Len(window) THEN 1 ELSE 0)
          r == fetch_new_posts(cache, posts, window, rf, wf, stop)
      IN /\ ~scan_lock
         /\ scan_lock' = ScanLockAfter(stop < Len(window))
         /\ faults + n <= MaxFaults
         /\ faults' = faults + n
         /\ post_cache' = r.cache
         /\ posts' = r.posts
         /\ post_queue' = post_queue \o r.new
         /\ scanlog' = [scans |-> Min(scanlog.scans + 1, 2), window |-> window,
                        before |-> cache, after |-> r.cache, new |-> r.new,
                        dec |-> r.dec, done |-> stop = Len(window), failed |-> n > 0,
                        prevWindow |-> scanlog.window, prevAfter |-> scanlog.after,
                        prevDone |-> scanlog.done]

\* RedditBot.initial_scan: a fresh PostCache, then scan_posts
initial_scan ==
    /\ phase = "start"
    /\ running' = TRUE
    /\ scan_posts({})
    /\ phase' = "gather"
    /\ escaped' = escaped \cup Escapes("initial_scan", faults' > faults)
    /\ UNCHANGED <<reddit, comments, comment_replies, processing_queue, reply_queue,
                   has_previous_comments, loops, clock, history, restarts, exited, asleep>>

\* RedditBot.scheduled_scan, one iteration.  Its first iteration is the first thing
\* asyncio.gather runs after initial_scan.
scheduled_scan ==
    /\ phase \in {"gather", "loops"}
    /\ Iterates("scheduled_scan")
    /\ scan_posts(post_cache)
    /\ phase' = "loops"
    /\ Contained("scheduled_scan")
    /\ UNCHANGED <<reddit, comments, comment_replies, processing_queue, reply_queue,
                   has_previous_comments, loops, clock, history, restarts>>

\* -------------------------------------------------------------- generation
\* what the awaited LLMHandler.generate_response can come back with: a text, the
\* canned apology OllamaHandler returns on an error, a text with a disallowed
\* marker, an empty text, or an exception (the other handlers re-raise)
LLMOutcomes == {"text", "fallback", "marker", "empty", "raise"}

\* a fault that may be injected while the budget lasts
FaultChoice == {f \in BOOLEAN : f => faults < MaxFaults}

\* process_queue: take a post; process_post up to the awaited LLM call, or all of
\* it when process_post returns before the call (llm_handler is never None in a
\* running process: RedditBot.__init__ always passes one)
process_queue_get ==
    /\ phase = "loops"
    /\ Iterates("process_queue")
    /\ gen.pc = "idle"
    /\ post_queue # <<>>
    /\ post_queue' = Dequeue(post_queue).rest
    /\ \E fails \in FaultChoice :
         LET post == Dequeue(post_queue).item
             verdict == IF has_commented_on_post(comments, post, fails) THEN "commented"
                        ELSE ContentFilter(selftext[post])
         IN /\ faults' = IF fails THEN faults + 1 ELSE faults
            /\ gen' = IF verdict = "pass" THEN [pc |-> "llm", post |-> post] ELSE Idle
            /\ processing_queue' =
                 IF verdict = "skip"
                 THEN Append(processing_queue, [post |-> post, response |-> "deflect"])
                 ELSE processing_queue
    /\ Contained("process_queue")
    /\ UNCHANGED <<reddit, db, phase, post_cache, reply_queue,
                   has_previous_comments, cp, rp, clock, history, scanning, restarts>>

\* process_post from the LLM's answer on, and process_post_with_llm's put
ProcessPostDone(outcomes) ==
    /\ gen.pc = "llm"
    /\ \E outcome \in outcomes, fails \in FaultChoice :
         IF outcome \in {"text", "fallback"}
         THEN /\ posts' = update_post_response(posts, gen.post, outcome, fails)
              /\ faults' = IF fails THEN faults + 1 ELSE faults
              /\ processing_queue' =
                   Append(processing_queue, [post |-> gen.post, response |-> outcome])
         ELSE /\ ~fails
              /\ UNCHANGED <<posts, faults, processing_queue>>
    /\ gen' = Idle
    /\ Contained("process_queue")
    /\ UNCHANGED <<reddit, comments, comment_replies, phase, post_cache, post_queue,
                   reply_queue, has_previous_comments, cp, rp, clock, history,
                   scanning, restarts>>

process_post_done == ProcessPostDone(LLMOutcomes)

\* the same with an LLM that answers with a plain text or raises
process_post_done_plain == ProcessPostDone({"text", "raise"})

\* ----------------------------------------------------------------- limiter
\* a limiter that sleeps one time unit less than the remainder
LimiterWaitShort(elapsed) ==
    IF elapsed < comment_delay THEN comment_delay - elapsed - 1 ELSE 0

\* post_comment / post_reply: wait_time, 0 when the caller does not sleep
LimiterWait(elapsed) ==
    IF elapsed < comment_delay THEN comment_delay - elapsed ELSE 0

\* the caller goes to sleep in the limiter; other is the other dispatching loop
Sleeping(call, other) ==
    [pc |-> "sleep", call |-> call, wait |-> LimiterWait(time_since_last),
     req |-> LimiterWait(time_since_last), elapsed |-> time_since_last,
     overlap |-> other.pc = "sleep"]
Overlapped(other) == IF other.pc = "sleep" THEN [other EXCEPT !.overlap = TRUE] ELSE other
NoSleep(other) == [req |-> 0, elapsed |-> time_since_last, overlap |-> other.pc = "sleep"]

\* a limiter that takes every post call, failed or not, for a post
LastCommentTimeAlways(ok, elapsed) == 0

\* post_comment / post_reply from the external call on, in terms of the time since
\* last_comment_time: 'last_comment_time = time.time()' is reached when the call
\* returned and skipped when it raised
LastCommentTime(ok, elapsed) == IF ok THEN 0 ELSE elapsed

\* a successful external post: last_comment_time = time.time()
Posted(kind, target, response, meta) ==
    /\ time_since_last' = LastCommentTime(TRUE, time_since_last)
    /\ since_delivery' = 0
    /\ delivered' = Append(delivered,
                           [kind |-> kind, target |-> target, response |-> response])
    /\ last_post' = [gap |-> since_delivery, elapsed |-> meta.elapsed,
                     req |-> meta.req, overlap |-> meta.overlap]
    /\ UNCHANGED dropped

\* post_comment after the wait, and the rest of comment_processor's iteration
SubmitComment(call, meta) ==
    \E ok \in {TRUE} \cup {f \in {FALSE} : faults < MaxFaults} :
      IF ok
      THEN /\ thread' = Append(thread, [author |-> "bot", kind |-> "top",
                                        parent |-> call.post])
           /\ Posted("comment", call.post, call.response, meta)
           /\ has_previous_comments' = TRUE
           /\ UNCHANGED faults
      ELSE /\ faults' = faults + 1
           /\ dropped' = dropped \cup {call.post}
           /\ time_since_last' = LastCommentTime(FALSE, time_since_last)
           /\ UNCHANGED <<thread, since_delivery, last_post, delivered,
                          has_previous_comments>>

\* comment_processor: take an entry; post_comment up to its sleep, or all of it
comment_processor_get ==
    /\ phase = "loops"
    /\ Iterates("comment_processor")
    /\ cp.pc = "idle"
    /\ processing_queue # <<>>
    /\ processing_queue' = Dequeue(processing_queue).rest
    /\ IF LimiterWait(time_since_last) > 0
       THEN /\ cp' = Sleeping(Dequeue(processing_queue).item, rp)
            /\ rp' = Overlapped(rp)
            /\ UNCHANGED <<thread, clock, history, has_previous_comments, faults>>
       ELSE /\ SubmitComment(Dequeue(processing_queue).item, NoSleep(rp))
            /\ cp' = Idle
            /\ rp' = Overlapped(rp)
    /\ Contained("comment_processor")
    /\ UNCHANGED <<subreddit, selftext, db, phase, post_cache, post_queue, reply_queue, gen,
                   scanning, restarts>>

\* comment_processor: asyncio.sleep(wait_time) is over
comment_processor_wake ==
    /\ cp.pc = "sleep"
    /\ cp.wait = 0
    /\ SubmitComment(cp.call, cp)
    /\ cp' = Idle
    /\ Contained("comment_processor")
    /\ UNCHANGED <<subreddit, selftext, db, phase, post_cache, queues, gen, rp, scanning, restarts>>

\* -------------------------------------------------------------- reply scan
RECURSIVE Desc(_)
Desc(S) == IF S = {} THEN <<>>
           ELSE LET m == CHOOSE x \in S : \A y \in S : y <= x
                IN <<m>> \o Desc(S \ {m})
RECURSIVE Asc(_)
Asc(S) == IF S = {} THEN <<>>
          ELSE LET m == CHOOSE x \in S : \A y \in S : x <= y
               IN <<m>> \o Asc(S \ {m})
SmallSubsets(S, n) == {T \in SUBSET S : Cardinality(T) <= n}

\* a scan that takes every reply for somebody else's
OwnReplyNever(author) == FALSE

\* 'reply.author == self.config.username': the reply is the bot account's own
OwnReply(author) == author = "bot"

\* scan_comment_replies, the inner loop over the replies rs to the bot's comment c.
\* pf and df are the ids whose is_reply_processed / get_conversation_depth lookup
\* raises sqlite3.Error.
RECURSIVE ScanRepliesOf(_, _, _, _, _)
ScanRepliesOf(c, rs, j, pf, df) ==
    IF j > Len(rs) THEN <<>>
    ELSE
      LET r     == rs[j]
          skip  == \/ OwnReply(thread[r].author)
                   \/ is_reply_processed(comment_replies, r, r \in pf)
          depth == get_conversation_depth(comment_replies, c, c \in df) + 1
          entry == IF skip \/ depth > max_conversation_depth THEN <<>>
                   ELSE <<[parent_comment_id |-> c, reply_id |-> r, depth |-> depth]>>
      IN entry \o ScanRepliesOf(c, rs, j + 1, pf, df)

\* scan_comment_replies, the outer loop over the bot's comments cs, newest first.
\* af are the comments whose get_comment_replies fails and returns [].
RECURSIVE ScanComments(_, _, _, _, _)
ScanComments(cs, k, pf, df, af) ==
    IF k > Len(cs) THEN <<>>
    ELSE LET replies == IF cs[k] \in af THEN <<>> ELSE Asc(RepliesTo(cs[k]))
         IN ScanRepliesOf(cs[k], replies, 1, pf, df)
              \o ScanComments(cs, k + 1, pf, df, af)

\* scan_comment_replies: the entries it puts on reply_queue (none when listing the
\* bot's comments fails)
scan_comment_replies(listFails, pf, df, af) ==
    IF listFails THEN <<>> ELSE ScanComments(Desc(BotCommentIds), 1, pf, df, af)

\* a cycle that looks at the account's comments again whatever the flag is
ReplyScanGateShut(flag) == FALSE

\* a gate that is always open
ReplyScanGateOpen(flag) == TRUE

\* 'if self.has_previous_comments': the cycle scans
ReplyScanGate(flag) == flag

\* scheduled_reply_scan, one iteration, in a run whose reply_queue holds at most
\* backlog entries
ScheduledReplyScan(backlog) ==
    /\ phase = "loops"
    /\ Iterates("scheduled_reply_scan")
    /\ IF ReplyScanGate(has_previous_comments)
       THEN /\ \E listFails \in BOOLEAN,
                  pf \in SmallSubsets(UserReplyIds, MaxFaults - faults),
                  df \in SmallSubsets(BotCommentIds, MaxFaults - faults),
                  af \in SmallSubsets(BotCommentIds, MaxFaults - faults) :
                 LET n == Cardinality(pf) + Cardinality(df) + Cardinality(af)
                            + (IF listFails THEN 1 ELSE 0)
                 IN /\ faults + n <= MaxFaults
                    /\ faults' = faults + n
                    /\ reply_queue' = reply_queue \o scan_comment_replies(listFails, pf, df, af)
            /\ Len(reply_queue') <= backlog
            /\ UNCHANGED has_previous_comments
       ELSE /\ \E fails \in FaultChoice :
                 /\ has_previous_comments' = check_previous_comments(fails)
                 /\ faults' = IF fails THEN faults + 1 ELSE faults
            /\ UNCHANGED reply_queue
    /\ Contained("scheduled_reply_scan")
    /\ UNCHANGED <<reddit, db, phase, post_cache, post_queue, processing_queue, loops,
                   clock, history, scanning, restarts>>

scheduled_reply_scan == ScheduledReplyScan(MaxQueue)

\* the same in a run in which entries pile up on reply_queue
scheduled_reply_scan_backlog == ScheduledReplyScan(MaxBacklog)

\* ------------------------------------------------------- reply processing
\* process_comment_replies: take an entry; process_reply up to the awaited LLM call
process_comment_replies_get ==
    /\ phase = "loops"
    /\ Iterates("process_comment_replies")
    /\ rp.pc = "idle"
    /\ reply_queue # <<>>
    /\ reply_queue' = Dequeue(reply_queue).rest
    /\ rp' = [pc |-> "llm", data |-> Dequeue(reply_queue).item]
    /\ UNCHANGED <<reddit, db, phase, post_cache, post_queue, processing_queue,
                   has_previous_comments, gen, cp, clock, history, scanning, faults,
                   restarts, lifecycle>>

\* process_reply returns; with a response the loop starts its humanizing sleep
ProcessReplyDone(outcomes) ==
    /\ rp.pc = "llm"
    /\ \E outcome \in outcomes :
         rp' = IF outcome \in {"text", "fallback", "marker"}
               THEN [pc |-> "delay", data |-> rp.data, response |-> outcome]
               ELSE Idle
    /\ UNCHANGED <<reddit, db, phase, post_cache, queues, has_previous_comments, gen, cp,
                   clock, history, scanning, faults, restarts, lifecycle>>

process_reply_done == ProcessReplyDone(LLMOutcomes)

\* the same with an LLM that answers with a plain text or raises
process_reply_done_plain == ProcessReplyDone({"text", "raise"})

\* post_reply after the wait, then save_comment_reply
SubmitReply(call, meta) ==
    \E ok \in BOOLEAN, fails \in BOOLEAN :
      /\ (IF ok THEN 0 ELSE 1) + (IF fails THEN 1 ELSE 0) <= MaxFaults - faults
      /\ ~ok => ~fails
      /\ faults' = faults + (IF ok THEN 0 ELSE 1) + (IF fails THEN 1 ELSE 0)
      /\ IF ok
         THEN /\ thread' = Append(thread, [author |-> "bot", kind |-> "reply",
                                           parent |-> call.data.reply_id])
              /\ Posted("reply", call.data.reply_id, call.response, meta)
              /\ comment_replies' =
                   save_comment_reply(comment_replies, call.data.parent_comment_id,
                                      call.data.reply_id, call.data.depth,
                                      call.response, fails)
         ELSE /\ time_since_last' = LastCommentTime(FALSE, time_since_last)
              /\ UNCHANGED <<thread, since_delivery, last_post, history,
                             comment_replies>>

\* the humanizing sleep is over: post_reply up to its sleep, or all of it
process_comment_replies_post ==
    /\ rp.pc = "delay"
    /\ IF LimiterWait(time_since_last) > 0
       THEN /\ rp' = Sleeping([data |-> rp.data, response |-> rp.response], cp)
            /\ cp' = Overlapped(cp)
            /\ UNCHANGED <<thread, clock, history, comment_replies, faults>>
       ELSE /\ SubmitReply(rp, NoSleep(cp))
            /\ rp' = Idle
            /\ cp' = Overlapped(cp)
    /\ Contained("process_comment_replies")
    /\ UNCHANGED <<subreddit, selftext, posts, comments, phase, post_cache, queues,
                   has_previous_comments, gen, scanning, restarts>>

\* process_comment_replies: asyncio.sleep(wait_time) is over
process_comment_replies_wake ==
    /\ rp.pc = "sleep"
    /\ rp.wait = 0
    /\ SubmitReply(rp.call, rp)
    /\ rp' = Idle
    /\ Contained("process_comment_replies")
    /\ UNCHANGED <<subreddit, selftext, posts, comments, phase, post_cache, queues,
                   has_previous_comments, gen, cp, scanning, restarts>>

\* ------------------------------------------------------------- the store
\* The write operations of DatabaseHandler, called with any arguments on the tables
\* as they are.
StoreKeys == 1..NumItems
StoreDepths == {1, max_conversation_depth}
StoreTexts == {NULL, "text"}
StoreFrame ==
    UNCHANGED <<reddit, phase, post_cache, queues, has_previous_comments, loops, clock,
                history, scanning, restarts, lifecycle>>

store_save_post ==
    /\ \E post_id \in StoreKeys, fails \in FaultChoice :
         /\ posts' = save_post(posts, post_id, fails)
         /\ faults' = IF fails THEN faults + 1 ELSE faults
    /\ UNCHANGED <<comments, comment_replies>>
    /\ StoreFrame

store_update_post_response ==
    /\ \E post_id \in StoreKeys, fails \in FaultChoice :
         /\ posts' = update_post_response(posts, post_id, "text", fails)
         /\ faults' = IF fails THEN faults + 1 ELSE faults
    /\ UNCHANGED <<comments, comment_replies>>
    /\ StoreFrame

store_save_comment ==
    /\ \E post_id \in StoreKeys, comment_id \in StoreKeys, fails \in FaultChoice :
         /\ comments' = save_comment(comments, post_id, comment_id, fails).tbl
         /\ faults' = IF fails THEN faults + 1 ELSE faults
    /\ UNCHANGED <<posts, comment_replies>>
    /\ StoreFrame

store_save_comment_reply ==
    /\ \E parent \in StoreKeys, reply \in StoreKeys, depth \in StoreDepths,
          text \in StoreTexts, fails \in FaultChoice :
         /\ comment_replies' =
              save_comment_reply(comment_replies, parent, reply, depth, text, fails)
         /\ faults' = IF fails THEN faults + 1 ELSE faults
    /\ UNCHANGED <<posts, comments>>
    /\ StoreFrame

\* ------------------------------------------------------------- the cache
\* PostCache.add on a cache of capacity CacheCapacity, called with any id
cache_add ==
    /\ \E post_id \in 1..CacheIds :
         post_cache' = PostCacheAdd(post_cache, post_id, CacheCapacity)
    /\ UNCHANGED <<reddit, db, phase, queues, has_previous_comments, loops, clock,
                   history, scanning, faults, restarts, lifecycle>>

\* ---------------------------------------------------------- specification
\* The post pipeline, from a first start on an empty store.
Next ==
    \/ NewSubmission
    \/ Tick
    \/ Restart
    \/ initial_scan
    \/ scheduled_scan
    \/ process_queue_get
    \/ process_post_done
    \/ comment_processor_get
    \/ comment_processor_wake

Spec == Init /\ [][Next]_vars

\* The reply pipeline in one conversation, from a later start of the process.
NextReply ==
    \/ UserReplyInChain
    \/ Tick
    \/ initial_scan
    \/ scheduled_scan
    \/ scheduled_reply_scan
    \/ process_comment_replies_get
    \/ process_reply_done_plain
    \/ process_comment_replies_post
    \/ process_comment_replies_wake

SpecReply == InitDeployed /\ [][NextReply]_vars

\* Both dispatching loops, from a later start of the process.
NextLimiter ==
    \/ NewSubmission
    \/ UserReply
    \/ Tick
    \/ initial_scan
    \/ scheduled_scan
    \/ process_queue_get
    \/ process_post_done_plain
    \/ comment_processor_get
    \/ comment_processor_wake
    \/ scheduled_reply_scan
    \/ process_comment_replies_get
    \/ process_reply_done_plain
    \/ process_comment_replies_post
    \/ process_comment_replies_wake

SpecLimiter == InitDeployed /\ [][NextLimiter]_vars

\* The reply pipeline with every answer the LLM can give, from a later start.
NextConversation ==
    \/ UserReply
    \/ Tick
    \/ initial_scan
    \/ scheduled_scan
    \/ scheduled_reply_scan
    \/ process_comment_replies_get
    \/ process_reply_done
    \/ process_comment_replies_post
    \/ process_comment_replies_wake

SpecConversation == InitDeployed /\ [][NextConversation]_vars

\* The post pipeline after a failed delivery.
SpecDropped == InitDropped /\ [][Next]_vars

\* The post pipeline on one submission of any text.
NextFilter ==
    \/ Tick
    \/ initial_scan
    \/ scheduled_scan
    \/ process_queue_get
    \/ process_post_done
    \/ comment_processor_get

SpecFilter == InitFilter /\ [][NextFilter]_vars

\* All five loops and the shutdown signal, from a state with work for every loop.
NextShutdown ==
    \/ Tick
    \/ handle_shutdown
    \/ loop_return
    \/ run_async_close
    \/ scheduled_scan
    \/ process_queue_get
    \/ process_post_done_plain
    \/ comment_processor_get
    \/ comment_processor_wake
    \/ scheduled_reply_scan
    \/ process_comment_replies_get
    \/ process_reply_done_plain
    \/ process_comment_replies_post
    \/ process_comment_replies_wake

\* What the event loop guarantees: time passes, a sleep ends, an awaited call of the
\* LLM service returns (its client has a timeout), and a coroutine that can run is run.
FairLoops ==
    /\ WF_vars(Tick)
    /\ \A loop \in Loops : WF_vars(LoopReturns(loop))
    /\ WF_vars(run_async_close)
    /\ WF_vars(process_post_done_plain)
    /\ WF_vars(comment_processor_wake)
    /\ WF_vars(process_reply_done_plain)
    /\ WF_vars(process_comment_replies_post)
    /\ WF_vars(process_comment_replies_wake)

SpecShutdown == InitBusy /\ [][NextShutdown]_vars /\ FairLoops

\* All five loops with every failure, from a state with work for every loop.
NextLoops ==
    \/ Tick
    \/ scheduled_scan
    \/ process_queue_get
    \/ process_post_done_plain
    \/ comment_processor_get
    \/ comment_processor_wake
    \/ scheduled_reply_scan
    \/ process_comment_replies_get
    \/ process_reply_done_plain
    \/ process_comment_replies_post
    \/ process_comment_replies_wake

SpecLoops == InitLoops /\ [][NextLoops]_vars

\* Both pipelines from a start with or without earlier comments.
NextGate ==
    \/ UserReply
    \/ Tick
    \/ initial_scan
    \/ scheduled_scan
    \/ process_queue_get
    \/ process_post_done_plain
    \/ comment_processor_get
    \/ scheduled_reply_scan
    \/ process_comment_replies_get
    \/ process_reply_done_plain
    \/ process_comment_replies_post
    \/ process_comment_replies_wake

SpecGate == InitGate /\ [][NextGate]_vars

\* Both pipelines with entries piling up on every queue.
NextFifo ==
    \/ UserReply
    \/ Tick
    \/ scheduled_scan
    \/ process_queue_get
    \/ process_post_done_plain
    \/ comment_processor_get
    \/ comment_processor_wake
    \/ scheduled_reply_scan_backlog
    \/ process_comment_replies_get
    \/ process_reply_done_plain
    \/ process_comment_replies_post
    \/ process_comment_replies_wake

SpecFifo == InitFifo /\ [][NextFifo]_vars

\* The post pipeline of a process that is not shut down.  The event loop lets time
\* pass, ends a sleep, and runs a loop that has something to do; an awaited call of
\* the LLM service returns.
NextProgress ==
    \/ Tick
    \/ scheduled_scan
    \/ process_queue_get
    \/ process_post_done_plain
    \/ comment_processor_get
    \/ comment_processor_wake

FairPipeline ==
    /\ WF_vars(Tick)
    /\ WF_vars(scheduled_scan)
    /\ WF_vars(process_queue_get)
    /\ WF_vars(process_post_done_plain)
    /\ WF_vars(comment_processor_get)
    /\ WF_vars(comment_processor_wake)

SpecProgress == InitProgress /\ [][NextProgress]_vars /\ FairPipeline

\* The store on its own, from the empty tables initialize_database creates.
NextStore ==
    \/ store_save_post
    \/ store_update_post_response
    \/ store_save_comment
    \/ store_save_comment_reply

SpecStore == Init /\ [][NextStore]_vars

\* A PostCache on its own, from the empty cache its constructor makes.
NextCache == cache_add

SpecCache == Init /\ [][NextCache]_vars

\* Both pipelines from a start with or without earlier comments, with failures.
SpecFlag == InitFlag /\ [][NextGate]_vars

\* The reply pipeline on threads that also hold replies of the bot's own account.
NextSelf ==
    \/ UserReply
    \/ SelfReply
    \/ Tick
    \/ initial_scan
    \/ scheduled_scan
    \/ scheduled_reply_scan
    \/ process_comment_replies_get
    \/ process_reply_done_plain
    \/ process_comment_replies_post
    \/ process_comment_replies_wake

SpecSelf == InitDeployed /\ [][NextSelf]_vars

\* ------------------------------------------------------------------ claims
CommentsOn(item) ==
    {k \in 1..Len(delivered) :
       delivered[k].kind = "comment" /\ delivered[k].target = item}

\* C1: no double-posting.  Over any sequence of scans, cache clears, restarts and
\* scans with a failing durable read or write, at most one top-level comment is
\* ever delivered for an item.
NoDoublePosting ==
    \A item \in 1..NumItems : Cardinality(CommentsOn(item)) <= 1

\* C8: idempotent dedup.  When a scan fetches the same items as the scan before it
\* (which went through all of them) and the cache was left intact in between, it
\* returns (and enqueues) nothing.
IdempotentDedup ==
    (/\ scanlog.scans = 2
     /\ scanlog.prevDone
     /\ scanlog.prevWindow = scanlog.window
     /\ scanlog.prevAfter = scanlog.before)
    => scanlog.new = <<>>

\* C9: the durable layer is authoritative.  An item that has a row in the posts
\* table when a scan looks at it is not classified as new and not returned for
\* queuing, whatever the cache holds.
DurableAuthoritative ==
    \A k \in 1..Len(scanlog.dec) :
      scanlog.dec[k].stored =>
        /\ ~scanlog.dec[k].new
        /\ scanlog.dec[k].id \notin Range(scanlog.new)

\* C10: novelty rule.  A scan treats an item as new iff its id is absent from the
\* cache and absent from the posts table; an item present in either layer is
\* skipped and changes nothing.
NoveltyRule ==
    \A k \in 1..Len(scanlog.dec) :
      /\ scanlog.dec[k].new <=> (~scanlog.dec[k].cached /\ ~scanlog.dec[k].stored)
      /\ (scanlog.dec[k].cached \/ scanlog.dec[k].stored) => ~scanlog.dec[k].changed


\* C2: under every interleaving of the comment dispatch loop and the reply loop,
\* both sleeping in the limiter included, a successful delivery comes no earlier
\* than comment_delay after the successful delivery before it.
GlobalRateLimit ==
    Len(delivered) >= 2 => last_post.gap >= comment_delay

\* C3: a call that finds elapsed < comment_delay sleeps exactly comment_delay - elapsed
\* before it posts, a call that finds elapsed >= comment_delay does not sleep, and a
\* delivery by a call that no other dispatch call overlapped comes no earlier than
\* comment_delay after the delivery before it.
WaitIsRemainder(l) ==
    /\ l.elapsed < comment_delay => l.req = comment_delay - l.elapsed
    /\ l.elapsed >= comment_delay => l.req = 0

SequentialRateLimit ==
    /\ WaitIsRemainder(last_post)
    /\ cp.pc = "sleep" => WaitIsRemainder(cp) /\ cp.req > 0
    /\ rp.pc = "sleep" => WaitIsRemainder(rp) /\ rp.req > 0
    /\ Len(delivered) >= 2 /\ ~last_post.overlap => last_post.gap >= comment_delay

\* a call that slept in the limiter, alone, has delivered
SequentialWaited ==
    /\ Len(delivered) >= 3
    /\ last_post.req > 0
    /\ ~last_post.overlap

\* the user replies the reply loop holds: taken from reply_queue and not yet answered
InFlightReplies == IF rp.pc \in {"llm", "delay"} THEN {rp.data.reply_id}
                   ELSE IF rp.pc = "sleep" THEN {rp.call.data.reply_id}
                   ELSE {}

\* C4: no reply of depth above max_conversation_depth is on reply_queue, is being
\* generated for, or is recorded in comment_replies.
DepthGate ==
    /\ \A i \in 1..Len(reply_queue) :
         TrueDepth(reply_queue[i].reply_id) <= max_conversation_depth
    /\ \A r \in InFlightReplies : TrueDepth(r) <= max_conversation_depth
    /\ \A r \in DOMAIN comment_replies : TrueDepth(r) <= max_conversation_depth

\* C5: the depth a reply is scanned and recorded with is its parent's depth + 1, so a
\* reply to the bot's answer to a reply of depth d has depth d + 1.
DepthLineage ==
    /\ \A i \in 1..Len(reply_queue) :
         reply_queue[i].depth = TrueDepth(reply_queue[i].reply_id)
    /\ \A r \in DOMAIN comment_replies :
         comment_replies[r].conversation_depth = TrueDepth(r)

\* the number of replies of the bot on the path from comment c up to the top-level
\* comment of its conversation
RECURSIVE BotRepliesInChain(_)
BotRepliesInChain(c) ==
    IF thread[c].kind = "top" THEN 0
    ELSE (IF thread[c].author = "bot" THEN 1 ELSE 0) + BotRepliesInChain(thread[c].parent)

\* C6: in one conversation chain the bot delivers at most max_conversation_depth
\* replies.
BoundedReplyRecursion ==
    \A c \in 1..Len(thread) : BotRepliesInChain(c) <= max_conversation_depth

\* C7: a reply of a user gets at most one delivered answer from the bot.
ReplyExactlyOnce ==
    \A r \in UserReplyIds :
      Cardinality({b \in BotCommentIds : thread[b].kind = "reply" /\ thread[b].parent = r}) <= 1


\* the text of post p has K > 0 restricted terms in W > 0 words and K / W > 2/5
AboveThreshold(p) ==
    /\ religious_word_count(selftext[p]) > 0
    /\ word_count(selftext[p]) > 0
    /\ 5 * religious_word_count(selftext[p]) > 2 * word_count(selftext[p])

\* C11: the fixed deflection text is returned for a post iff it has K > 0 restricted
\* terms and K / W > 0.4, strictly; at K / W = 0.4 and at W = 0 the post is not
\* short-circuited, and no text makes the filter divide by zero.
ContentFilterDecision ==
    /\ \A i \in 1..Len(processing_queue) :
         processing_queue[i].response = "deflect" => AboveThreshold(processing_queue[i].post)
    /\ gen.pc = "llm" => ~AboveThreshold(gen.post)
    /\ \A p \in 1..Len(selftext) : ContentFilter(selftext[p]) # "error"

\* a post at the boundary, two restricted terms in five words, went on to the LLM
BoundaryPassed ==
    /\ gen.pc = "llm"
    /\ religious_word_count(selftext[gen.post]) = 2
    /\ word_count(selftext[gen.post]) = 5

\* the entries of processing_queue that carry a comment for post p
QueuedFor(p) == {i \in 1..Len(processing_queue) : processing_queue[i].post = p}

\* C12: for a post the content filter short-circuits no text is produced, nothing is
\* put on processing_queue and no comment is ever delivered.
FilteredPostGetsNothing ==
    \A p \in 1..Len(selftext) :
      AboveThreshold(p) => QueuedFor(p) = {} /\ CommentsOn(p) = {}

\* C13: after a successful delivery of a comment on a post the comments table holds
\* a row for that post, and it holds rows only for such posts.
PostedCommentWritten ==
    /\ \A p \in 1..Len(selftext) :
         CommentsOn(p) # {} => has_commented_on_post(comments, p, FALSE)
    /\ \A row \in comments : CommentsOn(row.post_id) # {}

TakesFiltered ==
    /\ gen.pc = "idle"
    /\ post_queue # <<>>
    /\ post_queue' = Tail(post_queue)
    /\ AboveThreshold(Head(post_queue))
    /\ ~has_commented_on_post(comments, Head(post_queue), FALSE)

\* C15: when the content filter short-circuits a post, process_post returns the fixed
\* text (it is what goes on processing_queue) and the LLM is not called for the post,
\* in that step or ever.
ShortCircuitFirst ==
    /\ [](gen.pc = "llm" => ~AboveThreshold(gen.post))
    /\ [][TakesFiltered =>
            /\ gen' = Idle
            /\ processing_queue' = Append(processing_queue,
                                          [post |-> Head(post_queue), response |-> "deflect"])
            /\ UNCHANGED posts]_vars

\* the fixed text of a short-circuited post is on processing_queue
ShortCircuited ==
    \E i \in 1..Len(processing_queue) :
      /\ processing_queue[i].response = "deflect"
      /\ AboveThreshold(processing_queue[i].post)

\* C16: a text of the LLM that holds a disallowed marker is discarded, for a post and
\* for a reply alike: it is not stored, not queued and not delivered.
MarkerDiscarded ==
    /\ \A k \in 1..Len(delivered) : delivered[k].response # "marker"
    /\ \A i \in 1..Len(processing_queue) : processing_queue[i].response # "marker"
    /\ \A p \in DOMAIN posts : posts[p].llm_response # "marker"
    /\ \A r \in DOMAIN comment_replies : comment_replies[r].llm_response # "marker"
    /\ rp.pc = "delay" => rp.response # "marker"
    /\ rp.pc = "sleep" => rp.call.response # "marker"

\* C17: when the call of the LLM service fails, process_post and process_reply give
\* no response: no text for that post or reply is queued or delivered.  ("fallback"
\* is what generate_response gives back when the service is down or the request
\* fails.)
FailureGivesNoResponse ==
    /\ \A k \in 1..Len(delivered) : delivered[k].response # "fallback"
    /\ \A i \in 1..Len(processing_queue) : processing_queue[i].response # "fallback"
    /\ rp.pc = "delay" => rp.response # "fallback"
    /\ rp.pc = "sleep" => rp.call.response # "fallback"

\* C18: a text process_post returns for a post is, when it is returned, stored in the
\* posts table as the response of that post; so is every text put on
\* processing_queue, the fixed text of the content filter included.
PersistBeforeDeliver ==
    [][Len(processing_queue') > Len(processing_queue) =>
         LET e == processing_queue'[Len(processing_queue')]
         IN /\ e.post \in DOMAIN posts'
            /\ posts'[e.post].llm_response = e.response]_vars

\* C19: a comment whose external post failed is dropped: its post is not put on
\* post_queue or processing_queue again, is not generated for again and gets no
\* second post call.
NoRetryAfterFailure ==
    \A p \in dropped :
      /\ p \notin Range(post_queue)
      /\ QueuedFor(p) = {}
      /\ gen.pc = "llm" => gen.post # p
      /\ cp.pc = "sleep" => cp.call.post # p
      /\ CommentsOn(p) = {}

ScanFailureGivesEmpty ==
    /\ scanlog.failed => scanlog.new = <<>>
    /\ escaped \cap {"initial_scan", "scheduled_scan"} = {}
    /\ (scanlog.failed /\ running /\ phase \in {"gather", "loops"}) => ENABLED scheduled_scan

\* C21, amended: no failure gets out of a scan and scheduled_scan goes on to its next
\* iteration; a scan that an exception ended part-way returns an empty list, while a
\* sqlite3.Error of the store is answered inside the store and the scan goes on.
ScanNeverThrows ==
    /\ (scanlog.scans > 0 /\ ~scanlog.done) => scanlog.new = <<>>
    /\ escaped \cap {"initial_scan", "scheduled_scan"} = {}
    /\ (scanlog.failed /\ running /\ phase \in {"gather", "loops"}) => ENABLED scheduled_scan

\* an exception ended a scan after it had handled an item
ScanEndedPartWay ==
    /\ scanlog.scans > 0
    /\ ~scanlog.done
    /\ scanlog.dec # <<>>

\* C22: once the shutdown flag is set no loop starts another iteration (nothing more
\* is taken from a queue, no scan puts anything on one) and a loop that has returned
\* stays returned; every loop finishes the iteration it is in and returns, and the
\* cleanup step of run_async runs.
ShutdownTerminates ==
    /\ [][(phase # "start" /\ ~running) =>
            /\ post_queue' = post_queue
            /\ reply_queue' = reply_queue
            /\ Len(processing_queue') >= Len(processing_queue)
            /\ exited \subseteq exited']_vars
    /\ (phase # "start" /\ ~running) ~> (phase = "closed" /\ exited = Loops)

\* the process shut down while entries were still queued
ClosedWithQueuedWork ==
    /\ phase = "closed"
    /\ exited = Loops
    /\ post_queue # <<>> \/ processing_queue # <<>> \/ reply_queue # <<>>

\* C25: a loop that wakes from a sleep inside its iteration (the limiter's wait, the
\* humanizing delay) with the shutdown flag set does nothing more: it posts no
\* comment and no reply and is back at the top of its loop.
FlagObservedAtSleep ==
    [][/\ ("comment_processor" \in asleep /\ cp.pc = "sleep" /\ cp'.pc # "sleep") =>
            cp' = Idle /\ delivered' = delivered /\ thread' = thread
       /\ ("process_comment_replies" \in asleep /\ rp.pc \in {"delay", "sleep"}
             /\ rp'.pc # rp.pc) =>
            rp' = Idle /\ delivered' = delivered /\ thread' = thread]_vars

ScanItemAtomic ==
    \A k \in 1..Len(scanlog.dec) :
      /\ scanlog.dec[k].new =>
            /\ scanlog.dec[k].marked
            /\ scanlog.dec[k].persisted
            /\ scanlog.dec[k].id \in Range(scanlog.new)
      /\ scanlog.dec[k].changed => scanlog.dec[k].id \in Range(scanlog.new)

\* C26: the scan at startup starts from an empty cache and leaves every row the
\* store holds as it is; all it changes in the store is to insert a row, without a
\* response, for each item it found new.
InitialScanFrame ==
    [][(phase = "start" /\ phase' = "gather") =>
         /\ scanlog'.before = {}
         /\ \A p \in DOMAIN posts : p \in DOMAIN posts' /\ posts'[p] = posts[p]
         /\ \A p \in (DOMAIN posts') \ (DOMAIN posts) :
              /\ posts'[p].llm_response = NULL
              /\ \E k \in 1..Len(scanlog'.dec) :
                   scanlog'.dec[k].id = p /\ scanlog'.dec[k].new
         /\ comments' = comments
         /\ comment_replies' = comment_replies]_vars

\* C27: a save_post that fails does not end the scan: the scan goes through the whole
\* window, and every item it finds new is marked and returned for post_queue, and
\* stored unless its own save_post failed.
WriteFailureDoesNotStopScan ==
    (scanlog.done /\ \E k \in 1..Len(scanlog.dec) : scanlog.dec[k].writeFailed) =>
      /\ Len(scanlog.dec) = Len(scanlog.window)
      /\ escaped = {}
      /\ \A j \in 1..Len(scanlog.dec) :
           /\ scanlog.dec[j].id = scanlog.window[j]
           /\ scanlog.dec[j].new =>
                 /\ scanlog.dec[j].marked
                 /\ scanlog.dec[j].id \in Range(scanlog.new)
                 /\ ~scanlog.dec[j].writeFailed => scanlog.dec[j].persisted

\* save_post failed for the first of two new items, and the second was stored and
\* returned
SecondItemStoredAfterFailedWrite ==
    /\ scanlog.done
    /\ Len(scanlog.dec) = 2
    /\ scanlog.dec[1].writeFailed
    /\ scanlog.dec[2].new
    /\ scanlog.dec[2].persisted
    /\ scanlog.dec[2].id \in Range(scanlog.new)

\* C28: a response stored for an item is never overwritten or cleared, and the LLM is
\* not called again for an item that has a stored response or a delivered comment.
ResponseWrittenOnce ==
    /\ [][\A p \in DOMAIN posts :
            posts[p].llm_response # NULL =>
              p \in DOMAIN posts' /\ posts'[p].llm_response = posts[p].llm_response]_vars
    /\ [](gen.pc = "llm" =>
            /\ gen.post \in DOMAIN posts => posts[gen.post].llm_response = NULL
            /\ CommentsOn(gen.post) = {})

\* the entries of a reply queue that are for the user's reply r
EntriesFor(queue, r) == {i \in 1..Len(queue) : queue[i].reply_id = r}

\* C29: a row of comment_replies is written only for a reply whose answer was
\* delivered, with is_processed true and the response; no row has is_processed false;
\* and once a reply has its row no reply scan puts it on reply_queue again.
ReplyRecording ==
    /\ [](\A r \in DOMAIN comment_replies :
            /\ comment_replies[r].is_processed
            /\ comment_replies[r].llm_response # NULL
            /\ \E k \in 1..Len(delivered) :
                 /\ delivered[k].kind = "reply"
                 /\ delivered[k].target = r
                 /\ delivered[k].response = comment_replies[r].llm_response)
    /\ [][\A r \in DOMAIN comment_replies :
            /\ r \in DOMAIN comment_replies'
            /\ Cardinality(EntriesFor(reply_queue', r))
                 <= Cardinality(EntriesFor(reply_queue, r))]_vars

\* C30: a reply scan is performed, and so reply_queue grows, only in a cycle that
\* finds has_previous_comments set, and then the account has a comment; a cycle that
\* finds it clear only looks at the account's comments again and leaves reply_queue
\* as it is.
ReplyScanGated ==
    /\ [](has_previous_comments => BotCommentIds # {})
    /\ [][(Len(reply_queue') > Len(reply_queue) =>
              (has_previous_comments /\ BotCommentIds # {}))
           /\ (~has_previous_comments => reply_queue' = reply_queue)]_vars

\* a cycle found the flag set and queued a user's reply
ReplyScanQueued ==
    /\ has_previous_comments
    /\ reply_queue # <<>>
    /\ comment_replies = <<>>


\* queue after is queue before with entries put at its tail
PutAtTail(before, after) ==
    /\ Len(after) >= Len(before)
    /\ SubSeq(after, 1, Len(before)) = before

\* C31: every queue is first-in first-out.  Entries are put at the tail and taken from
\* the head, one at a time, by a consumer that has finished the entry before: the post
\* taken from post_queue is the one generated for, the entry taken from
\* processing_queue is the one whose post call is made, the entry taken from
\* reply_queue is the one handled; comments are delivered in the order the scan queued
\* their posts (2, then 1).
QueueFifo ==
    /\ [](\A i, j \in 1..Len(delivered) :
            (i < j /\ delivered[i].kind = "comment" /\ delivered[j].kind = "comment")
              => delivered[i].target > delivered[j].target)
    /\ [][/\ \/ PutAtTail(post_queue, post_queue')
             \/ /\ post_queue # <<>>
                /\ post_queue' = Tail(post_queue)
                /\ gen.pc = "idle"
                /\ gen'.pc = "llm" => gen'.post = Head(post_queue)
          /\ \/ PutAtTail(processing_queue, processing_queue')
             \/ /\ processing_queue # <<>>
                /\ processing_queue' = Tail(processing_queue)
                /\ cp.pc = "idle"
                /\ cp'.pc = "sleep" => cp'.call = Head(processing_queue)
                /\ delivered' # delivered =>
                     /\ delivered'[Len(delivered')].kind = "comment"
                     /\ delivered'[Len(delivered')].target = Head(processing_queue).post
          /\ \/ PutAtTail(reply_queue, reply_queue')
             \/ /\ reply_queue # <<>>
                /\ reply_queue' = Tail(reply_queue)
                /\ rp.pc = "idle"
                /\ rp'.pc = "llm" /\ rp'.data = Head(reply_queue)]_vars

\* both comments were delivered, and answers to two replies of users
BothStreamsServed ==
    /\ \E i, j \in 1..Len(delivered) :
         /\ i < j
         /\ delivered[i].kind = "comment"
         /\ delivered[j].kind = "comment"
    /\ \E i, j \in 1..Len(delivered) :
         /\ i < j
         /\ delivered[i].kind = "reply"
         /\ delivered[j].kind = "reply"
         /\ delivered[i].target # delivered[j].target


\* a post call for a comment on post p is made in this step: it delivers or it fails
AttemptOn(p) ==
    \/ /\ Len(delivered') = Len(delivered) + 1
       /\ SubSeq(delivered', 1, Len(delivered)) = delivered
       /\ delivered'[Len(delivered')].kind = "comment"
       /\ delivered'[Len(delivered')].target = p
       /\ dropped' = dropped
    \/ /\ delivered' = delivered
       /\ dropped' = dropped \cup {p}
       /\ faults' = faults + 1

NoAttempt == delivered' = delivered /\ dropped' = dropped

\* nothing is on its way through the post pipeline
PipelineDrained ==
    /\ post_queue = <<>>
    /\ processing_queue = <<>>
    /\ gen.pc = "idle"
    /\ cp.pc = "idle"

\* C32: while the process runs, whatever is on post_queue and processing_queue gets
\* taken from it (the pipeline drains), one entry per step of its loop, and every
\* entry taken from processing_queue gets exactly one post call: at once, or when the
\* limiter's sleep it went into is over.
PipelineProgress ==
    /\ (~PipelineDrained) ~> PipelineDrained
    /\ [][/\ Len(post_queue') >= Len(post_queue) - 1
          /\ Len(processing_queue') >= Len(processing_queue) - 1
          /\ IF Len(processing_queue') < Len(processing_queue)
             THEN \/ cp'.pc = "sleep" /\ cp'.call = Head(processing_queue) /\ NoAttempt
                  \/ cp' = Idle /\ AttemptOn(Head(processing_queue).post)
             ELSE IF cp.pc = "sleep" /\ cp'.pc # "sleep"
             THEN cp' = Idle /\ AttemptOn(cp.call.post)
             ELSE NoAttempt]_vars

\* both posts went through the pipeline, the second after a sleep in the limiter
BothPostsAttempted ==
    /\ post_queue = <<>>
    /\ processing_queue = <<>>
    /\ cp.pc = "idle"
    /\ \A p \in 1..NumItems : CommentsOn(p) # {} \/ p \in dropped
    /\ last_post.req > 0


RowsFor(tbl, c) == {row \in tbl : row.comment_id = c}

\* C34: in each of the three tables, writing a record whose unique key the table holds
\* succeeds and leaves exactly one row for the key, holding the record written, and
\* writing the same record a second time leaves the table as the first write left it.
IdempotentUpsert ==
    /\ \A p \in DOMAIN posts :
         LET once == save_post(posts, p, FALSE)
         IN /\ p \in DOMAIN once
            /\ once[p] = [llm_response |-> NULL]
            /\ save_post(once, p, FALSE) = once
    /\ \A r \in DOMAIN comment_replies, parent \in StoreKeys, depth \in StoreDepths,
          text \in StoreTexts :
         LET once == save_comment_reply(comment_replies, parent, r, depth, text, FALSE)
         IN /\ r \in DOMAIN once
            /\ once[r].parent_comment_id = parent
            /\ once[r].conversation_depth = depth
            /\ once[r].llm_response = text
            /\ save_comment_reply(once, parent, r, depth, text, FALSE) = once
    /\ \A row \in comments, post_id \in StoreKeys :
         LET once == save_comment(comments, post_id, row.comment_id, FALSE)
         IN /\ once.ok
            /\ RowsFor(once.tbl, row.comment_id)
                 = {[post_id |-> post_id, comment_id |-> row.comment_id]}
            /\ save_comment(once.tbl, post_id, row.comment_id, FALSE) = once


LimiterClockFrame ==
    /\ [](time_since_last = since_delivery)
    /\ [][/\ delivered' # delivered => time_since_last' = 0
          /\ delivered' = delivered =>
               /\ time_since_last' >= time_since_last
               /\ time_since_last' - time_since_last = since_delivery' - since_delivery
          /\ time_since_last' > time_since_last =>
               time_since_last' = time_since_last + 1]_vars

\* a post call of this run delivered and another one failed, and the limiter's clock
\* is at the time since the delivery
FailedPostLeftClock ==
    /\ dropped # {}
    /\ Len(delivered) = 2
    /\ delivered[2].kind = "reply"
    /\ time_since_last = 1


\* C37: within a run has_previous_comments, once true, stays true: no step takes it
\* back to false, whatever fails.
FlagMonotone ==
    [][has_previous_comments => has_previous_comments']_vars

\* the flag was set by this run's first comment, and a reply scan has run since
FlagSetByFirstComment ==
    /\ has_previous_comments
    /\ Len(delivered) = 1
    /\ time_since_last < comment_delay
    /\ reply_queue # <<>>


\* C38: a reply written by the bot's own account is never put on reply_queue, is never
\* generated for and never gets an answer delivered.
NeverAnswersItself ==
    /\ \A i \in 1..Len(reply_queue) : thread[reply_queue[i].reply_id].author # "bot"
    /\ \A r \in InFlightReplies : thread[r].author # "bot"
    /\ \A k \in 1..Len(delivered) :
         delivered[k].kind = "reply" => thread[delivered[k].target].author # "bot"

\* a reply scan went past a reply of the bot's own account and queued the reply of a
\* user, written after it, to the same comment
ScanPassedOwnReply ==
    \E r \in SelfReplyIds, i \in 1..Len(reply_queue) :
      /\ r < reply_queue[i].reply_id
      /\ thread[reply_queue[i].reply_id].parent = thread[r].parent


\* the replies a reply scan in which nothing fails would put on reply_queue now
WouldBeQueued ==
    LET found == scan_comment_replies(FALSE, {}, {}, {})
    IN {found[i].reply_id : i \in 1..Len(found)}

\* C39: a reply whose answer could not be delivered, or was delivered and could not be
\* recorded, is left without a row in comment_replies; and as long as a user's reply
\* has no row the next reply scan puts it on reply_queue again, so that a response is
\* generated for it again.
RetryByRescan ==
    /\ [](\A r \in UserReplyIds : r \notin DOMAIN comment_replies => r \in WouldBeQueued)
    /\ [][(rp.pc \in {"delay", "sleep"} /\ rp' = Idle
             /\ (delivered' = delivered \/ faults' > faults))
            => comment_replies' = comment_replies]_vars

\* an answer to a user's reply was delivered and not recorded, the reply was scanned
\* again and a response is being generated for it a second time
RegeneratedAfterFailedRecord ==
    /\ rp.pc = "llm"
    /\ rp.data.reply_id \notin DOMAIN comment_replies
    /\ \E k \in 1..Len(delivered) :
         delivered[k].kind = "reply" /\ delivered[k].target = rp.data.reply_id

=============================================================================
